---------------------------- MODULE Spec2Model ----------------------------
(***************************************************************************)
(* A model of empyre's map engine (engine/src/maps.rs, engine/src/pieces.rs) *)
(* and of the pipeline main() drives (ui/src/main.rs):                     *)
(*   new_random -> smooth* -> make_terrain -> place_cities -> Display.     *)
(*                                                                         *)
(* Rust integers keep their width.  An arithmetic overflow panics in a     *)
(* build with overflow checks (debug) and wraps in one without (release);  *)
(* both outcomes are kept wherever an overflow can happen.  A usize at or  *)
(* above 2^63 (an i16 below zero cast `as usize`) is written as its two's  *)
(* complement negative: it is larger than every Vec length.                *)
(***************************************************************************)
EXTENDS Integers, Sequences, FiniteSets, TLC

VARIABLES
    pc,      \* where the driver stands: "start", "height", "terrain", "placed",
             \* "printed", "iter", "made", "tripped", "panic"
    grid,    \* main's `grid`: the Grid<u16> heightfield, or NoGrid
    prev,    \* the Grid<u16> the latest smooth() consumed, or NoGrid
    passes,  \* number of smooth() passes applied so far
    water,   \* the ratio handed to make_terrain, or -1
    map,     \* main's `map`: the Grid<Location>, or NoGrid
    out,     \* the characters Display has written, in order
    asked,   \* water_height calls on `grid`: a set of [ratio, h] records
    iter,    \* a NeighbourIter with the items its next() calls returned, or NoIter
    wide,    \* Grid::new(width, height) seen by its dimensions and Vec length
    trip     \* an index/position conversion round trip, or NoTrip

vars == <<pc, grid, prev, passes, water, map, out, asked, iter, wide, trip>>

-----------------------------------------------------------------------------
(* Program constants and the bounds of the model *)

MAX_HEIGHT == 999

MaxW == 3
MaxH == 3
MaxCells == 9
MaxPasses == 2
MaxShowCells == 4
MaxWaterCells == 4

\* Raw elevations new_random is let to draw (samples of 0..MAX_HEIGHT-1):
\* the two ends of the range, and low values for the runs that search the
\* water level (the search costs one test per threshold below its result)
Samples == {0, MAX_HEIGHT - 1}
LowSamples == {0, 2}
WaterSamples == {0, 1, 2}

\* Water ratios handed to make_terrain by main (u16; the CLI allows 0..=90)
\* and to water_height directly (any u16; 100 and above are never exceeded)
Ratios == {0, 50, 90}
WaterRatios == {0, 33, 50, 66, 90, 100}

Dims == {d \in (1..MaxW) \X (1..MaxH) : d[1] * d[2] <= MaxCells}

ShowDims == {d \in Dims : d[1] * d[2] <= MaxShowCells}

WaterDims == {d \in Dims : d[1] * d[2] <= MaxWaterCells}

NoGrid == [width |-> 0, height |-> 0, map |-> <<>>]
NoIter == [pos |-> [x |-> 0, y |-> 0], idx |-> 0, items |-> <<>>]
NoWide == [width |-> 0, height |-> 0, len |-> 0]
NoTrip == [kind |-> "none"]

-----------------------------------------------------------------------------
(* Fixed-width integers *)

U16 == 65536

\* `n as u16` / the wrapped result of u16 arithmetic
WrapU16(n) == n % U16

\* `n as i16` / the wrapped result of i16 arithmetic
WrapI16(n) == LET m == n % U16 IN IF m >= 32768 THEN m - U16 ELSE m

InI16(n) == n >= -32768 /\ n <= 32767

\* a * b in u16: whether it overflows, and the wrapped product (computed by
\* halves of b, so that no intermediate value leaves 32 bits)
MulU16(a, b) ==
    [ovf |-> a # 0 /\ b > (U16 - 1) \div a,
     val |-> (a * (b % 256) + ((a * (b \div 256)) % 256) * 256) % U16]

\* `v as usize` for an i16 v: sign extension; written as v itself (see above)
AsUsize(v) == v

-----------------------------------------------------------------------------
(* Position, Terrain, Piece, Location *)

Position(x0, y0) == [x |-> x0, y |-> y0]

\* impl Add for Position (i16 + i16, wrapped; for a position a grid covers
\* and an offset in -1..1 the sum never leaves i16)
PosAdd(p, q) == [x |-> WrapI16(p.x + q.x), y |-> WrapI16(p.y + q.y)]

Location(p, t) == [pos |-> p, terrain |-> t, piece |-> "None"]

TerrainGlyph(t) ==
    CASE t = "Land" -> "+"
      [] t = "Water" -> "."
      [] t = "Unknown" -> " "

PieceGlyph(p) == "O"

\* A slip in LocationGlyph: the terrain glyph even when a piece is present
LocationGlyph_terrain(l) == TerrainGlyph(l.terrain)

LocationGlyph(l) ==
    IF l.piece # "None" THEN PieceGlyph(l.piece) ELSE TerrainGlyph(l.terrain)

-----------------------------------------------------------------------------
(* Index arithmetic *)

\* fn pos_to_idx: (pos.y * width as i16 + pos.x) as usize
pos_to_idx(pos, width) ==
    LET w == WrapI16(width)
        prod == pos.y * w
        sum == WrapI16(prod) + pos.x
    IN  [ovf |-> ~InI16(prod) \/ ~InI16(sum),
         val |-> AsUsize(WrapI16(sum))]

\* fn idx_to_pos: y = idx as u16 / width; x = (idx - (y * width) as usize) as i16
idx_to_pos(idx, width) ==
    LET y == WrapU16(idx) \div width
    IN  [x |-> WrapI16(idx - WrapU16(y * width)), y |-> WrapI16(y)]

\* Grid::covers
covers(g, pos) ==
    (pos.x >= 0 /\ pos.x < WrapI16(g.width)) /\ (pos.y >= 0 /\ pos.y < WrapI16(g.height))

\* Index<Position> / IndexMut<Position>: the Vec slot (1-based here) that
\* g[pos] reaches, or 0 when the access panics: pos_to_idx overflows in a
\* build with overflow checks (chk), or the index is outside the Vec
Slot(g, pos, chk) ==
    LET i == pos_to_idx(pos, g.width)
    IN  IF chk /\ i.ovf THEN 0
        ELSE IF i.val >= 0 /\ i.val < Len(g.map) THEN i.val + 1
        ELSE 0

-----------------------------------------------------------------------------
(* Grid construction *)

\* Grid::new: vec![T::default(); (width * height) as usize], width * height in u16
GridNew(width, height, default, chk) ==
    LET n == MulU16(width, height)
    IN  IF chk /\ n.ovf
        THEN [panic |-> TRUE, grid |-> NoGrid]
        ELSE [panic |-> FALSE,
              grid |-> [width |-> width, height |-> height,
                        map |-> [i \in 1..n.val |-> default]]]

\* Grid::<u16>::new_random: the Vec is replaced by the first capacity() values
\* of the sampled stream `draw` (each in 0..MAX_HEIGHT-1); the capacity of
\* vec![0; n] is n
new_random(width, height, draw, chk) ==
    LET g == GridNew(width, height, 0, chk)
    IN  IF g.panic THEN g
        ELSE [panic |-> FALSE,
              grid |-> [width |-> width, height |-> height,
                        map |-> SubSeq(draw, 1, Len(g.grid.map))]]

-----------------------------------------------------------------------------
(* Neighbour iteration *)

\* A slip in the offset table: east listed before west
dirs_swapped ==
    << Position(-1, -1), Position(0, -1), Position(1, -1),
       Position(1, 0),                    Position(-1, 0),
       Position(-1, 1),  Position(0, 1),  Position(1, 1) >>

\* Grid::neighbours: the offset table, in the iterator's order
dirs ==
    << Position(-1, -1), Position(0, -1), Position(1, -1),
       Position(-1, 0),                   Position(1, 0),
       Position(-1, 1),  Position(0, 1),  Position(1, 1) >>

\* Grid::neighbours: a fresh iterator at pos
neighbours(pos) == [pos |-> pos, idx |-> 0]

\* The loop of NeighbourIter::next, entered with it.idx < dirs.len().
\* kind "some" carries the slot of the cell the returned reference points to.
RECURSIVE NextLoop(_, _, _, _)
NextLoop(g, pos, idx, chk) ==
    LET n_pos == PosAdd(pos, dirs[idx + 1])
        idx1 == idx + 1
    IN  IF covers(g, n_pos)
        THEN LET s == Slot(g, n_pos, chk)
             IN  [idx |-> idx1, kind |-> IF s = 0 THEN "panic" ELSE "some", slot |-> s]
        ELSE IF idx1 >= Len(dirs)
        THEN [idx |-> idx1, kind |-> "none", slot |-> 0]
        ELSE NextLoop(g, pos, idx1, chk)

\* NeighbourIter::next
next(g, it, chk) ==
    IF it.idx >= Len(dirs)
    THEN [idx |-> it.idx, kind |-> "none", slot |-> 0]
    ELSE NextLoop(g, it.pos, it.idx, chk)

\* Driving next() until it returns None (what sum() and count() do): the
\* slots yielded, in order; <<0>> when an access panicked
RECURSIVE Drain(_, _, _, _)
Drain(g, it, acc, chk) ==
    LET r == next(g, it, chk)
    IN  CASE r.kind = "none" -> acc
          [] r.kind = "panic" -> <<0>>
          [] r.kind = "some" ->
                Drain(g, [pos |-> it.pos, idx |-> r.idx], Append(acc, r.slot), chk)

-----------------------------------------------------------------------------
(* Smoothing *)

\* Iterator::sum::<u16>() over the yielded cells: the exact total; it wraps
\* or panics when it reaches 2^16
RECURSIVE SumSlots(_, _)
SumSlots(g, slots) ==
    IF slots = <<>> THEN 0
    ELSE g.map[Head(slots)] + SumSlots(g, Tail(slots))

\* A slip in smooth(): the cell's own value left out of the sum
SmoothCell_noself(g, idx, chk) ==
    LET pos == idx_to_pos(idx, g.width)
        nb == Drain(g, neighbours(pos), <<>>, chk)
    IN  IF nb = <<0>> THEN [panic |-> TRUE, val |-> 0]
        ELSE LET total == SumSlots(g, nb)
             IN  IF chk /\ total >= U16 THEN [panic |-> TRUE, val |-> 0]
                 ELSE [panic |-> FALSE,
                       val |-> WrapU16(total) \div WrapU16(Len(nb) + 1)]

\* A slip in smooth(): the sum divided by count() instead of count() + 1
\* (dividing by zero panics)
SmoothCell_bycount(g, idx, chk) ==
    LET pos == idx_to_pos(idx, g.width)
        nb == Drain(g, neighbours(pos), <<>>, chk)
        own == Slot(g, pos, chk)
    IN  IF nb = <<0>> \/ own = 0 \/ Len(nb) = 0 THEN [panic |-> TRUE, val |-> 0]
        ELSE LET total == SumSlots(g, nb) + g.map[own]
             IN  IF chk /\ total >= U16 THEN [panic |-> TRUE, val |-> 0]
                 ELSE [panic |-> FALSE,
                       val |-> WrapU16(total) \div WrapU16(Len(nb))]

\* One iteration of smooth()'s loop, for idx (0-based):
\* (self.neighbours(pos).sum::<u16>() + self[pos]) / (count() + 1) as u16
SmoothCell(g, idx, chk) ==
    LET pos == idx_to_pos(idx, g.width)
        nb == Drain(g, neighbours(pos), <<>>, chk)
        own == Slot(g, pos, chk)
    IN  IF nb = <<0>> \/ own = 0 THEN [panic |-> TRUE, val |-> 0]
        ELSE LET total == SumSlots(g, nb) + g.map[own]
             IN  IF chk /\ total >= U16 THEN [panic |-> TRUE, val |-> 0]
                 ELSE [panic |-> FALSE,
                       val |-> WrapU16(total) \div WrapU16(Len(nb) + 1)]

\* Grid::<u16>::smooth: every new cell is computed from self.map, the input
smooth(g, chk) ==
    LET cells == [i \in 1..Len(g.map) |-> SmoothCell(g, i - 1, chk)]
    IN  IF \E i \in 1..Len(g.map) : cells[i].panic
        THEN [panic |-> TRUE, grid |-> NoGrid]
        ELSE [panic |-> FALSE,
              grid |-> [width |-> g.width, height |-> g.height,
                        map |-> [i \in 1..Len(g.map) |-> cells[i].val]]]

-----------------------------------------------------------------------------
(* Water level and terrain *)

\* A slip in water_height: the percentage compared with >= instead of >
AboveWater_ge(g, h, ratio) ==
    LET below == Cardinality({i \in 1..Len(g.map) : g.map[i] <= h})
        above == Cardinality({i \in 1..Len(g.map) : g.map[i] > h})
    IN  (below * 100) \div (above + below) >= ratio

\* A slip in water_height: the comparison turned round
AboveWater_lt(g, h, ratio) ==
    LET below == Cardinality({i \in 1..Len(g.map) : g.map[i] <= h})
        above == Cardinality({i \in 1..Len(g.map) : g.map[i] > h})
    IN  (below * 100) \div (above + below) < ratio

\* The test of water_height's loop body at threshold h (usize arithmetic):
\* below * 100 / (above + below) > ratio
AboveWater(g, h, ratio) ==
    LET below == Cardinality({i \in 1..Len(g.map) : g.map[i] <= h})
        above == Cardinality({i \in 1..Len(g.map) : g.map[i] > h})
    IN  (below * 100) \div (above + below) > ratio

\* `for h in lo..hi { if test(h) { return h } }`: the first h that passes, or
\* MAX_HEIGHT when the loop runs out (the range is halved to keep the
\* evaluation shallow; the thresholds are still tried in increasing order
\* and none past the first hit)
RECURSIVE FirstHeight(_, _, _, _)
FirstHeight(g, ratio, lo, hi) ==
    IF lo >= hi THEN MAX_HEIGHT
    ELSE IF hi = lo + 1 THEN (IF AboveWater(g, lo, ratio) THEN lo ELSE MAX_HEIGHT)
    ELSE LET mid == (lo + hi) \div 2
             l == FirstHeight(g, ratio, lo, mid)
         IN  IF l # MAX_HEIGHT THEN l ELSE FirstHeight(g, ratio, mid, hi)

\* Grid::<u16>::water_height; dividing by above + below = 0 panics
water_height(g, ratio) ==
    IF Len(g.map) = 0 THEN [panic |-> TRUE, h |-> 0]
    ELSE [panic |-> FALSE, h |-> FirstHeight(g, ratio, 0, MAX_HEIGHT)]

\* A slip in make_terrain: a cell at the water level classified Land
Classify_strict(idx, level, wh, width) ==
    IF level < wh
    THEN Location(idx_to_pos(idx, width), "Water")
    ELSE Location(idx_to_pos(idx, width), "Land")

\* The closure of make_terrain for one (idx, level)
Classify(idx, level, wh, width) ==
    IF level <= wh
    THEN Location(idx_to_pos(idx, width), "Water")
    ELSE Location(idx_to_pos(idx, width), "Land")

\* Grid::<u16>::make_terrain
make_terrain(g, ratio) ==
    LET wh == water_height(g, ratio)
    IN  IF wh.panic THEN [panic |-> TRUE, grid |-> NoGrid]
        ELSE [panic |-> FALSE,
              grid |-> [width |-> g.width, height |-> g.height,
                        map |-> [i \in 1..Len(g.map) |->
                                    Classify(i - 1, g.map[i], wh.h, g.width)]]]

-----------------------------------------------------------------------------
(* Pieces and city placement *)

\* Grid::<Location>::put_piece: self[pos].piece = Some(piece)
put_piece(m, piece, pos, chk) ==
    LET s == Slot(m, pos, chk)
    IN  IF s = 0 THEN [panic |-> TRUE, grid |-> NoGrid]
        ELSE [panic |-> FALSE,
              grid |-> [m EXCEPT !.map[s].piece = piece]]

\* Grid::<Location>::remove_piece: self[pos].piece = None
remove_piece(m, pos, chk) ==
    LET s == Slot(m, pos, chk)
    IN  IF s = 0 THEN [panic |-> TRUE, grid |-> NoGrid]
        ELSE [panic |-> FALSE,
              grid |-> [m EXCEPT !.map[s].piece = "None"]]

\* ((100 * (self.width + self.height)) / 228) as usize, in u16
city_num(m, chk) ==
    LET s == m.width + m.height
        p == 100 * WrapU16(s)
    IN  [panic |-> chk /\ (s >= U16 \/ p >= U16),
         n |-> WrapU16(p) \div 228]

\* The indices (0-based) place_cities filters: the cells with terrain Land
LandIdx(m) == {idx \in 0..(Len(m.map) - 1) : m.map[idx + 1].terrain = "Land"}

\* IteratorRandom::choose_multiple(rng, amount): `amount` distinct items of
\* the iterator, or all of them when it has fewer; every such choice is possible
choose_multiple(items, amount) ==
    LET k == IF amount <= Cardinality(items) THEN amount ELSE Cardinality(items)
    IN  {c \in SUBSET items : Cardinality(c) = k}

\* The loop `for pos in city_idx { self.put_piece(Piece::City, pos) }`
RECURSIVE PutCities(_, _, _)
PutCities(m, city_idx, chk) ==
    IF city_idx = {} THEN [panic |-> FALSE, grid |-> m]
    ELSE LET pos == CHOOSE q \in city_idx : TRUE
             r == put_piece(m, "City", pos, chk)
         IN  IF r.panic THEN r ELSE PutCities(r.grid, city_idx \ {pos}, chk)

\* Grid::<Location>::place_cities with `picked` the indices choose_multiple
\* returned.  land = (number of Land cells) / city_num is computed before any
\* piece is put, and dividing by city_num = 0 panics.
place_cities(m, picked, chk) ==
    LET cn == city_num(m, chk)
        city_idx == {idx_to_pos(idx, m.width) : idx \in picked}
    IN  IF cn.panic \/ cn.n = 0 THEN [panic |-> TRUE, grid |-> NoGrid]
        ELSE PutCities(m, city_idx, chk)

-----------------------------------------------------------------------------
(* Display *)

\* The inner loop of Grid's fmt: `for w in 0..self.width { write!(f, "{}", self[..]) }`
\* from column w on; <<"!">> stands for a panic in the indexing
RECURSIVE FmtRow(_, _, _, _, _)
FmtRow(m, h, w, acc, chk) ==
    IF w >= m.width THEN acc
    ELSE LET s == Slot(m, Position(WrapI16(w), WrapI16(h)), chk)
         IN  IF s = 0 THEN <<"!">>
             ELSE FmtRow(m, h, w + 1, Append(acc, LocationGlyph(m.map[s])), chk)

\* The outer loop: `for h in 0..self.height { ...; write!(f, "\n") }` from row h on
RECURSIVE FmtRows(_, _, _, _)
FmtRows(m, h, acc, chk) ==
    IF h >= m.height THEN acc
    ELSE LET row == FmtRow(m, h, 0, <<>>, chk)
         IN  IF row = <<"!">> THEN row
             ELSE FmtRows(m, h + 1, acc \o row \o <<"\n">>, chk)

\* impl Display for Grid<Location>
fmt(m, chk) ==
    LET text == FmtRows(m, 0, <<>>, chk)
    IN  [panic |-> text = <<"!">>, text |-> text]

-----------------------------------------------------------------------------
(* The inputs of the wide-grid checks: dimensions up to the u16 range *)

WideSizes == {1, 2, 100, 181, 182, 200, 256, 32767, 32768, 65535}

\* Sample indices of a Vec of length len
IdxSamples(w) ==
    {i \in {0, 1, w.width - 1, w.width, w.len \div 2, 32767, 32768, w.len - 1} :
        i >= 0 /\ i < w.len}

\* Sample positions the grid covers
PosSamples(w) ==
    {p \in {Position(x0, y0) : x0 \in {0, 1, w.width - 1},
                               y0 \in {0, 1, 163, 164, w.height - 1}} :
        InI16(p.x) /\ InI16(p.y) /\ covers(w, p)}

\* The positions a small grid covers
Covered(g) == {p \in {Position(x0, y0) : x0 \in 0..(g.width - 1),
                                         y0 \in 0..(g.height - 1)} : covers(g, p)}

\* Location grids of the display checks: any terrain in any cell, no piece
ShowGrids ==
    UNION {{[width |-> d[1], height |-> d[2],
             map |-> [i \in 1..(d[1] * d[2]) |->
                         Location(idx_to_pos(i - 1, d[1]), t[i])]] :
               t \in [1..(d[1] * d[2]) -> {"Water", "Land", "Unknown"}]} :
           d \in ShowDims}

-----------------------------------------------------------------------------
(* The state machine *)

Init ==
    /\ pc = "start"
    /\ grid = NoGrid
    /\ prev = NoGrid
    /\ passes = 0
    /\ water = -1
    /\ map = NoGrid
    /\ out = <<>>
    /\ asked = {}
    /\ iter = NoIter
    /\ wide = NoWide
    /\ trip = NoTrip

\* let mut grid = Grid::new_random(width, height), for dimensions in D and
\* a random stream over S
Generate(D, S) ==
    /\ pc = "start"
    /\ \E d \in D, chk \in BOOLEAN :
         \E draw \in [1..(d[1] * d[2]) -> S] :
           LET r == new_random(d[1], d[2], draw, chk)
           IN  /\ pc' = IF r.panic THEN "panic" ELSE "height"
               /\ grid' = r.grid
    /\ UNCHANGED <<prev, passes, water, map, out, asked, iter, wide, trip>>

NewRandom == Generate(Dims, Samples)

NewRandomLow == Generate(Dims, LowSamples)

NewRandomWater == Generate(WaterDims, WaterSamples)

\* grid = grid.smooth()
Smooth ==
    /\ pc = "height"
    /\ passes < MaxPasses
    /\ \E chk \in BOOLEAN :
         LET r == smooth(grid, chk)
         IN  /\ pc' = IF r.panic THEN "panic" ELSE "height"
             /\ grid' = IF r.panic THEN grid ELSE r.grid
    /\ prev' = grid
    /\ passes' = passes + 1
    /\ asked' = {}
    /\ UNCHANGED <<water, map, out, iter, wide, trip>>

\* let mut map = grid.make_terrain(water); `grid` keeps the heightfield the
\* call consumed
MakeTerrain ==
    /\ pc = "height"
    /\ \E ratio \in Ratios :
         LET r == make_terrain(grid, ratio)
         IN  /\ pc' = IF r.panic THEN "panic" ELSE "terrain"
             /\ map' = r.grid
             /\ water' = ratio
    /\ UNCHANGED <<grid, prev, passes, out, asked, iter, wide, trip>>

\* map.place_cities()
PlaceCities ==
    /\ pc = "terrain"
    /\ \E chk \in BOOLEAN :
         \E picked \in choose_multiple(LandIdx(map), city_num(map, chk).n) :
           LET r == place_cities(map, picked, chk)
           IN  /\ pc' = IF r.panic THEN "panic" ELSE "placed"
               /\ map' = IF r.panic THEN map ELSE r.grid
    /\ UNCHANGED <<grid, prev, passes, water, out, asked, iter, wide, trip>>

\* map.put_piece(Piece::City, pos)
PutPiece ==
    /\ pc = "placed"
    /\ \E pos \in Covered(map), chk \in BOOLEAN :
         LET r == put_piece(map, "City", pos, chk)
         IN  /\ pc' = IF r.panic THEN "panic" ELSE "placed"
             /\ map' = IF r.panic THEN map ELSE r.grid
    /\ UNCHANGED <<grid, prev, passes, water, out, asked, iter, wide, trip>>

\* map.remove_piece(pos)
RemovePiece ==
    /\ pc = "placed"
    /\ \E pos \in Covered(map), chk \in BOOLEAN :
         LET r == remove_piece(map, pos, chk)
         IN  /\ pc' = IF r.panic THEN "panic" ELSE "placed"
             /\ map' = IF r.panic THEN map ELSE r.grid
    /\ UNCHANGED <<grid, prev, passes, water, out, asked, iter, wide, trip>>

\* write!(f, "{map}")
Show ==
    /\ pc = "placed"
    /\ \E chk \in BOOLEAN :
         LET r == fmt(map, chk)
         IN  /\ pc' = IF r.panic THEN "panic" ELSE "printed"
             /\ out' = IF r.panic THEN out ELSE r.text
    /\ UNCHANGED <<grid, prev, passes, water, map, asked, iter, wide, trip>>

\* grid.water_height(ratio), at most twice on one heightfield
WaterHeight ==
    /\ pc = "height"
    /\ Cardinality(asked) < 2
    /\ \E ratio \in WaterRatios :
         LET r == water_height(grid, ratio)
         IN  /\ pc' = IF r.panic THEN "panic" ELSE "height"
             /\ asked' = IF r.panic THEN asked
                         ELSE asked \cup {[ratio |-> ratio, h |-> r.h]}
    /\ UNCHANGED <<grid, prev, passes, water, map, out, iter, wide, trip>>

\* let mut nbrs = grid.neighbours(pos)
Neighbours ==
    /\ pc = "height"
    /\ \E pos \in Covered(grid) :
         iter' = [pos |-> pos, idx |-> neighbours(pos).idx, items |-> <<>>]
    /\ pc' = "iter"
    /\ UNCHANGED <<grid, prev, passes, water, map, out, asked, wide, trip>>

\* The number of None the iterator has returned so far
Nones(it) == Cardinality({k \in 1..Len(it.items) : it.items[k].kind = "none"})

\* nbrs.next(), until None has come back twice
IterNext ==
    /\ pc = "iter"
    /\ Nones(iter) < 2
    /\ \E chk \in BOOLEAN :
         LET r == next(grid, iter, chk)
         IN  /\ pc' = IF r.kind = "panic" THEN "panic" ELSE "iter"
             /\ iter' = [pos |-> iter.pos, idx |-> r.idx,
                         items |-> Append(iter.items,
                                     [kind |-> r.kind, slot |-> r.slot,
                                      val |-> IF r.kind = "some"
                                              THEN grid.map[r.slot] ELSE 0])]
    /\ UNCHANGED <<grid, prev, passes, water, map, out, asked, wide, trip>>

\* Grid::<u16>::new(width, height) for dimensions up to the u16 range; only
\* the length of the Vec is kept
NewWide ==
    /\ pc = "start"
    /\ \E w \in WideSizes, h \in WideSizes, chk \in BOOLEAN :
         LET r == GridNew(w, h, 0, chk)
         IN  /\ pc' = IF r.panic THEN "panic" ELSE "made"
             /\ wide' = [width |-> w, height |-> h, len |-> Len(r.grid.map)]
    /\ UNCHANGED <<grid, prev, passes, water, map, out, asked, iter, trip>>

\* pos_to_idx(idx_to_pos(idx, width), width) for an index of the Vec
IdxTrip ==
    /\ pc = "made"
    /\ \E idx \in IdxSamples(wide), chk \in BOOLEAN :
         LET p == idx_to_pos(idx, wide.width)
             b == pos_to_idx(p, wide.width)
         IN  trip' = [kind |-> "idx", idx |-> idx, pos |-> p,
                      panic |-> chk /\ b.ovf, back |-> b.val]
    /\ pc' = "tripped"
    /\ UNCHANGED <<grid, prev, passes, water, map, out, asked, iter, wide>>

\* idx_to_pos(pos_to_idx(pos, width), width) for a position the grid covers
PosTrip ==
    /\ pc = "made"
    /\ \E p \in PosSamples(wide), chk \in BOOLEAN :
         LET i == pos_to_idx(p, wide.width)
         IN  trip' = [kind |-> "pos", idx |-> i.val, pos |-> p,
                      panic |-> chk /\ i.ovf, back |-> idx_to_pos(i.val, wide.width)]
    /\ pc' = "tripped"
    /\ UNCHANGED <<grid, prev, passes, water, map, out, asked, iter, wide>>

\* The pipeline of main(): new_random, smooth*, make_terrain, place_cities, print
Next == NewRandomLow \/ Smooth \/ MakeTerrain \/ PlaceCities \/ Show

Spec == Init /\ [][Next]_vars

\* Generated heightfields and their smoothing passes
NextSmooth == NewRandom \/ Smooth

SpecSmooth == Init /\ [][NextSmooth]_vars

\* water_height asked of generated heightfields
NextWater == NewRandomWater \/ WaterHeight

SpecWater == Init /\ [][NextWater]_vars

\* Neighbour iteration over generated heightfields
NextNbr == NewRandom \/ Neighbours \/ IterNext

SpecNbr == Init /\ [][NextNbr]_vars

\* Display of Location grids with pieces put and removed
InitShow ==
    /\ pc = "placed"
    /\ map \in ShowGrids
    /\ grid = NoGrid
    /\ prev = NoGrid
    /\ passes = 0
    /\ water = -1
    /\ out = <<>>
    /\ asked = {}
    /\ iter = NoIter
    /\ wide = NoWide
    /\ trip = NoTrip

NextShow == PutPiece \/ RemovePiece \/ Show

SpecShow == InitShow /\ [][NextShow]_vars

\* Construction and index arithmetic over the whole u16 range of dimensions
NextWide == NewWide \/ IdxTrip \/ PosTrip

SpecWide == Init /\ [][NextWide]_vars

-----------------------------------------------------------------------------
(* Vocabulary of the properties, stated without the model's operators *)

\* The cell (0-based x, y) of a grid, by row-major position
At(g, x0, y0) == g.map[y0 * g.width + x0 + 1]

\* The piece-bearing slots of a Location grid
CitySlots(m) == {i \in 1..Len(m.map) : m.map[i].piece = "City"}

\* floor(100 * (width + height) / 228)
CityTarget(m) == (100 * (m.width + m.height)) \div 228

\* The in-bounds Moore neighbours of (x0, y0), as coordinate pairs
Moore(g, x0, y0) ==
    {q \in (0..(g.width - 1)) \X (0..(g.height - 1)) :
        /\ q # <<x0, y0>>
        /\ q[1] - x0 \in {-1, 0, 1}
        /\ q[2] - y0 \in {-1, 0, 1}}

\* The sum of a heightfield over a set of coordinate pairs
RECURSIVE SumOver(_, _)
SumOver(g, cells) ==
    IF cells = {} THEN 0
    ELSE LET q == CHOOSE c \in cells : TRUE
         IN  At(g, q[1], q[2]) + SumOver(g, cells \ {q})

\* The divisor the smoothing contract names, by the place of the cell in a
\* grid at least 2 wide and 2 high
PlaceDivisor(g, x0, y0) ==
    LET onX == x0 = 0 \/ x0 = g.width - 1
        onY == y0 = 0 \/ y0 = g.height - 1
    IN  IF onX /\ onY THEN 4 ELSE IF onX \/ onY THEN 6 ELSE 9

\* The eight Moore offsets in the contract's order: NW, N, NE, W, E, SW, S, SE
MooreOrder ==
    << <<-1, -1>>, <<0, -1>>, <<1, -1>>, <<-1, 0>>,
       <<1, 0>>, <<-1, 1>>, <<0, 1>>, <<1, 1>> >>

InGrid(g, x0, y0) == x0 >= 0 /\ x0 < g.width /\ y0 >= 0 /\ y0 < g.height

\* The slots of the cells pos + d, d in MooreOrder, that the grid covers
ExpectedSlots(g, pos) ==
    LET inside(d) == InGrid(g, pos.x + d[1], pos.y + d[2])
        kept == SelectSeq(MooreOrder, inside)
    IN  [k \in 1..Len(kept) |->
            (pos.y + kept[k][2]) * g.width + (pos.x + kept[k][1]) + 1]

\* Number of cells of a heightfield at or below h
AtOrBelow(g, h) == Cardinality({i \in 1..Len(g.map) : g.map[i] <= h})

-----------------------------------------------------------------------------
(* C1 *)

\* C1: one call to place_cities on a grid with no pieces terminates normally
\* and leaves exactly floor(100*(width+height)/228) cells carrying a City,
\* each of them a Land cell.  (In Spec only place_cities can panic.)
C1_PlaceCitiesExact ==
    /\ pc # "panic"
    /\ pc = "placed" =>
         /\ Cardinality(CitySlots(map)) = CityTarget(map)
         /\ \A i \in CitySlots(map) : map.map[i].terrain = "Land"

-----------------------------------------------------------------------------
(* C2 *)

\* C2 (as claimed): every water_height(ratio) answer is the least h in
\* 0..MAX_HEIGHT-1 with 100 * count(value <= h) > ratio * cell_count, and is
\* MAX_HEIGHT exactly when there is no such h.
C2_ExactFraction ==
    \A a \in asked :
      LET n == Len(grid.map)
          exceeds(h) == 100 * AtOrBelow(grid, h) > a.ratio * n
      IN  IF a.h < MAX_HEIGHT
          THEN exceeds(a.h) /\ \A h \in 0..(a.h - 1) : ~exceeds(h)
          ELSE a.h = MAX_HEIGHT /\ \A h \in 0..(MAX_HEIGHT - 1) : ~exceeds(h)

\* C2 (amended): every water_height(ratio) answer on a non-empty heightfield
\* is the least h in 0..MAX_HEIGHT-1 whose whole-number percentage
\* floor(100 * count(value <= h) / cell_count) strictly exceeds ratio, and is
\* MAX_HEIGHT exactly when there is no such h.
C2_TruncatedPercent ==
    \A a \in asked :
      LET n == Len(grid.map)
          exceeds(h) == (100 * AtOrBelow(grid, h)) \div n > a.ratio
      IN  IF a.h < MAX_HEIGHT
          THEN exceeds(a.h) /\ \A h \in 0..(a.h - 1) : ~exceeds(h)
          ELSE a.h = MAX_HEIGHT /\ \A h \in 0..(MAX_HEIGHT - 1) : ~exceeds(h)

\* water_height has answered MAX_HEIGHT for one ratio and a threshold above
\* 0 and below MAX_HEIGHT for another
C2_Witness ==
    /\ \E a \in asked : a.h = MAX_HEIGHT
    /\ \E a \in asked : a.h > 0 /\ a.h < MAX_HEIGHT

-----------------------------------------------------------------------------
(* C3 *)

\* C3: make_terrain(ratio) returns a grid of the same width and height whose
\* cell at each index is Water iff the source elevation there is at most
\* water_height(ratio) and Land otherwise, carries no piece, and stores the
\* row-major position of its index.
C3_MakeTerrain ==
    pc = "terrain" =>
      LET wh == water_height(grid, water).h
      IN  /\ map.width = grid.width
          /\ map.height = grid.height
          /\ Len(map.map) = Len(grid.map)
          /\ \A i \in 1..Len(map.map) :
               /\ map.map[i].terrain = IF grid.map[i] <= wh THEN "Water" ELSE "Land"
               /\ map.map[i].piece = "None"
               /\ map.map[i].pos = [x |-> (i - 1) % grid.width,
                                    y |-> (i - 1) \div grid.width]

\* make_terrain has produced a grid with both Water and Land, on more than
\* one row and more than one column
C3_Witness ==
    /\ pc = "terrain"
    /\ map.width > 1 /\ map.height > 1
    /\ \E i \in 1..Len(map.map) : map.map[i].terrain = "Water"
    /\ \E i \in 1..Len(map.map) : map.map[i].terrain = "Land"

-----------------------------------------------------------------------------
(* C4 *)

\* C4: the successive next() results of neighbours(pos), pos inside the
\* grid, are the cells pos + d for d in the order NW, N, NE, W, E, SW, S, SE
\* restricted to the offsets the grid covers, then None, and None again on
\* every later call.
C4_NeighbourOrder ==
    pc = "iter" =>
      LET want == ExpectedSlots(grid, iter.pos)
      IN  \A k \in 1..Len(iter.items) :
            IF k <= Len(want)
            THEN /\ iter.items[k].kind = "some"
                 /\ iter.items[k].slot = want[k]
                 /\ iter.items[k].val = grid.map[want[k]]
            ELSE iter.items[k].kind = "none"

\* An iterator at the interior cell of a 3 x 3 grid has returned its eight
\* neighbours and then None twice
C4_Witness ==
    /\ pc = "iter"
    /\ grid.width = 3 /\ grid.height = 3
    /\ iter.pos = Position(1, 1)
    /\ Len(iter.items) = 10
    /\ Nones(iter) = 2

-----------------------------------------------------------------------------
(* C5 *)

\* C5: smooth(g) has g's width and height, and every cell p holds
\* floor((g[p] + sum of g over p's in-bounds Moore neighbours) /
\* (1 + their number)), all read from the input g; in a grid at least 2 x 2
\* that divisor is 9 inside, 6 on an edge off the corners, 4 in a corner.
C5_SmoothAverage ==
    (pc = "height" /\ passes > 0) =>
      /\ grid.width = prev.width
      /\ grid.height = prev.height
      /\ Len(grid.map) = Len(prev.map)
      /\ \A x0 \in 0..(prev.width - 1), y0 \in 0..(prev.height - 1) :
           LET nb == Moore(prev, x0, y0)
               total == At(prev, x0, y0) + SumOver(prev, nb)
           IN  /\ At(grid, x0, y0) = total \div (1 + Cardinality(nb))
               /\ (prev.width >= 2 /\ prev.height >= 2) =>
                    At(grid, x0, y0) = total \div PlaceDivisor(prev, x0, y0)

\* A 3 x 3 heightfield with both elevations has been smoothed into a
\* different one
C5_Witness ==
    /\ pc = "height" /\ passes > 0
    /\ grid.width = 3 /\ grid.height = 3
    /\ grid.map # prev.map
    /\ \E i, j \in 1..Len(grid.map) : grid.map[i] # grid.map[j]

-----------------------------------------------------------------------------
(* C6 *)

\* C6: rendering a W x H Grid<Location> writes H lines of W characters and
\* a newline each; the character of column x, line y is 'O' if (x, y)
\* carries a City whatever its terrain, else '+' for Land, '.' for Water,
\* ' ' for Unknown.
C6_Rendering ==
    pc = "printed" =>
      /\ Len(out) = map.height * (map.width + 1)
      /\ \A y0 \in 0..(map.height - 1) :
           /\ out[y0 * (map.width + 1) + map.width + 1] = "\n"
           /\ \A x0 \in 0..(map.width - 1) :
                out[y0 * (map.width + 1) + x0 + 1] =
                  LET l == At(map, x0, y0)
                  IN  CASE l.piece = "City" -> "O"
                        [] l.piece # "City" /\ l.terrain = "Land" -> "+"
                        [] l.piece # "City" /\ l.terrain = "Water" -> "."
                        [] l.piece # "City" /\ l.terrain = "Unknown" -> " "

\* A grid of two rows and two columns has been rendered with a City on a
\* Water cell, a bare Land cell and a bare Unknown cell
C6_Witness ==
    /\ pc = "printed"
    /\ map.width = 2 /\ map.height = 2
    /\ \E i \in 1..4 : map.map[i].piece = "City" /\ map.map[i].terrain = "Water"
    /\ \E i \in 1..4 : map.map[i].piece = "None" /\ map.map[i].terrain = "Land"
    /\ \E i \in 1..4 : map.map[i].piece = "None" /\ map.map[i].terrain = "Unknown"

-----------------------------------------------------------------------------
(* C7 *)

\* C7: every grid has a backing sequence of exactly width * height cells:
\* Grid::new(W, H) yields W * H cells for every u16 W and H (without
\* panicking), and the heightfield and the Location grid of the pipeline
\* keep that length.
C7_LengthIsProduct ==
    /\ pc # "panic"
    /\ pc \in {"made", "tripped"} =>
         /\ wide.len % wide.width = 0
         /\ wide.len \div wide.width = wide.height
    /\ Len(grid.map) = grid.width * grid.height
    /\ Len(map.map) = map.width * map.height

-----------------------------------------------------------------------------
(* C8 *)

\* C8: for every grid width and height and every index i below
\* width * height, idx_to_pos(i, width) = (i mod width, i div width) and
\* pos_to_idx of it is i again; for every position p the grid covers,
\* idx_to_pos(pos_to_idx(p, width), width) = p; neither conversion fails in
\* the code's 16-bit arithmetic.
C8_RoundTrip ==
    pc = "tripped" =>
      /\ ~trip.panic
      /\ trip.kind = "idx" =>
           /\ trip.pos = [x |-> trip.idx % wide.width, y |-> trip.idx \div wide.width]
           /\ trip.back = trip.idx
      /\ trip.kind = "pos" => trip.back = trip.pos

-----------------------------------------------------------------------------
(* C9 *)

\* C9: on one heightfield, water_height is non-decreasing in the ratio.
C9_Monotone ==
    \A a, b \in asked : a.ratio <= b.ratio => a.h <= b.h

\* Two ratios have been asked of one heightfield and the larger one got a
\* strictly higher threshold
C9_Witness ==
    \E a, b \in asked : a.ratio < b.ratio /\ a.h < b.h /\ b.h < MAX_HEIGHT

-----------------------------------------------------------------------------
(* C10 *)

\* C10: from a heightfield with every cell in 0..MAX_HEIGHT-1, after any
\* number of smooth passes every cell is still in 0..MAX_HEIGHT-1; each
\* smoothed cell lies between the least and the greatest input value over
\* the cell and its in-bounds neighbours, and the u16 sum computed for a
\* cell never overflows (no pass panics).
C10_SmoothRange ==
    /\ pc # "panic"
    /\ \A i \in 1..Len(grid.map) : grid.map[i] >= 0 /\ grid.map[i] < MAX_HEIGHT
    /\ passes > 0 =>
         \A x0 \in 0..(prev.width - 1), y0 \in 0..(prev.height - 1) :
           LET around == Moore(prev, x0, y0) \cup {<<x0, y0>>}
           IN  /\ \E q \in around : At(prev, q[1], q[2]) <= At(grid, x0, y0)
               /\ \E q \in around : At(prev, q[1], q[2]) >= At(grid, x0, y0)
               /\ SumOver(prev, around) < U16

\* A second pass over a heightfield with a cell at the top of the range has
\* left a cell strictly between the ends of the range
C10_Witness ==
    /\ pc = "height" /\ passes = 2
    /\ \E i \in 1..Len(grid.map) : grid.map[i] > 0 /\ grid.map[i] < MAX_HEIGHT - 1
    /\ \E i \in 1..Len(prev.map) : prev.map[i] = MAX_HEIGHT - 1

=============================================================================
